---- MODULE Spec2Model ----
(***************************************************************************)
(* A model of the task-execution core of yoga-petz: the batch runner of    *)
(* src/main.py (get_batches, process, process_batch, process_account,      *)
(* refresh), the shared invite pool (InvitesHandler), the persistent store *)
(* (src/storage.py) and the claim-transaction lifecycle of src/account.py  *)
(* (build_and_send_tx, tx_verification, claim_daily_insight).              *)
(*                                                                         *)
(* asyncio tasks are cooperative: a task runs until an await that really   *)
(* suspends.  A worker's pc names the await it is suspended at; one action *)
(* is the code that runs when that await completes, up to the next one.    *)
(* The platform, the social client and the chain are external: each call   *)
(* to them returns one of the outcomes its interface allows, chosen with   *)
(* \E.                                                                     *)
(***************************************************************************)
EXTENDS Integers, Sequences, FiniteSets, TLC

\* ------------------------------------------------------------------ bounds
NumAccounts == 3          \* lines of files/wallets.txt in the run
THREADS_NUM == 2          \* config.THREADS_NUM in the run
NumFileCodes == 2         \* distinct codes files/invites.txt draws from
MaxFile == 2              \* lines of files/invites.txt
FromFirstCount == 2       \* config.AUTO_UPDATE_INVITES_FROM_FIRST_COUNT (count)
MaxUse == 1               \* config.AUTO_UPDATE_INVITES_FROM_FIRST_COUNT[0]
NumCallers == 3           \* concurrent callers of the pool's methods
SKIP_FIRST_ACCOUNTS == 0  \* config.SKIP_FIRST_ACCOUNTS in the run
MaxWallets == 4           \* get_batches inputs: wallets
MaxProxies == 2           \* get_batches inputs: proxies
MaxSkip == 2              \* get_batches inputs: skip
MaxThreads == 3           \* get_batches inputs: THREADS_NUM

\* ----------------------------------------------------------------- helpers
\* Python's None where a number is expected
None == 0 - 1

Range(s) == {s[i] : i \in 1..Len(s)}

IsDistinct(s) == \A i, j \in 1..Len(s) : i # j => s[i] # s[j]

Min(a, b) == IF a < b THEN a ELSE b

SeqsUpTo(S, n) == UNION {[1..k -> S] : k \in 0..n}

Perms(s) ==
    {t \in [1..Len(s) -> Range(s)] :
        \A x \in Range(s) : Cardinality({i \in 1..Len(s) : t[i] = x})
                          = Cardinality({i \in 1..Len(s) : s[i] = x})}

RECURSIVE SumSeq(_)
SumSeq(s) == IF s = <<>> THEN 0 ELSE Head(s) + SumSeq(Tail(s))

\* ------------------------------------------------------------- get_batches
\* want_only is created empty (main.py:271) and never filled.
want_only == {}

\* list(zip(wallets, cycle(proxies), twitters)) enumerated from 1: zip stops at
\* its shortest argument, and cycle of no proxies yields nothing.  main returns
\* before this unless len(wallets) = len(twitters).  An entry is named by its
\* 1-based index, which fixes its wallet, proxy and twitter token.
ZipData(wallets, proxies) ==
    IF proxies = 0 THEN <<>> ELSE [i \in 1..wallets |-> i]

\* the loop of main.py:280-281
RECURSIVE Distribute(_, _, _, _)
BatchOfShifted(k, n) == (k + 1) % n
BatchOf(k, n) == k % n
Distribute(data, k, n, acc) ==
    IF k >= Len(data) THEN acc
    ELSE Distribute(data, k + 1, n,
                    [acc EXCEPT ![BatchOf(k, n)] = Append(@, data[k + 1])])

\* the list get_batches distributes: all entries, or those after the first skip
SkipData(data, skip) ==
    LET d1 == IF skip # None THEN SubSeq(data, skip + 1, Len(data)) ELSE data
    IN  IF skip # None /\ want_only # {}
        THEN SelectSeq(data, LAMBDA d : d \in want_only)
        ELSE d1

get_batches(wallets, proxies, skip, n) ==
    Distribute(SkipData(ZipData(wallets, proxies), skip), 0, n,
               [b \in 0..(n - 1) |-> <<>>])

\* ------------------------------------------------- the run: shared state
Accounts == 1..NumAccounts
\* an account's address stands for the account (EthAccount().from_key(wallet))
Codes == 1..NumAccounts
\* the codes files/invites.txt may list
FileCodes == 1..Min(NumFileCodes, NumAccounts)
NoOne == 0 - 1
\* Storage.data.get(address) is None
NoInfo == [address |-> 0, invite_codes |-> <<>>]

\* main.py:286-289: the batches of the full-processing pass
Batches == get_batches(NumAccounts, 1, SKIP_FIRST_ACCOUNTS, THREADS_NUM)

BatchAccounts == UNION {Range(Batches[b]) : b \in DOMAIN Batches}

\* The platform gives each account its referral codes (well3.me(),
\* profile['referralInfo']['myReferralCodes']); here account a owns code a.
myReferralCodes(a) == <<a>>

VARIABLES
    cfg,        \* [autoUpdate, tuple]: AUTO_UPDATE_INVITES and whether
                \* AUTO_UPDATE_INVITES_FROM_FIRST_COUNT is a tuple
    pool,       \* InvitesHandler.invites
    lockHolder, \* the task inside `async with self.lock`, suspended there
    lockQueue,  \* asyncio.Lock's waiters, first in first out
    used,       \* the platform's set of redeemed codes ('usedAt' present)
    store,      \* Storage.data: address -> NoInfo or an AccountInfo
    wk,         \* per task: pc and the locals of its coroutines
    outcome,    \* history: what became of each account's callable
    redeemed,   \* history: use_invite_code calls that returned without error
    pool0,      \* history: the pool as loaded from files/invites.txt
    popLog      \* history: codes get_invite returned since the pool last grew

runVars == <<cfg, pool, lockHolder, lockQueue, used, store, wk, outcome,
             redeemed, pool0, popLog>>

VARIABLES
    gbIn,       \* the arguments of one get_batches call
    gbOut,      \* what it returned
    tx          \* one claim_daily_insight invocation on one account context

gbVars == <<gbIn, gbOut>>

VARIABLES
    file,       \* the content of the store's file (storage/data.json)
    sv,         \* history: the mapping last saved; whether it was just loaded
    dec         \* one decoding of a receipt's logs by tx_verification

ioVars == <<file, sv, dec>>

VARIABLES
    storeLock,  \* the task inside `async with self.lock` of the Storage
    pa          \* one process_account call from its quests on (main.py:179)

vars == <<runVars, gbVars, tx, ioVars, storeLock, pa>>

\* what the steps of the run leave alone: all of it, or all but the
\* Storage's lock
notRun == <<gbVars, tx, ioVars, storeLock, pa>>
notRunStore == <<gbVars, tx, ioVars, pa>>

\* models.AccountInfo(address, proxy, twitter_auth_token): the fields the core
\* reads back are the invite codes
NewAccountInfo(a) == [address |-> a, invite_codes |-> <<>>]

\* account.py:56-57: the codes of the profile that carry no 'usedAt'
UnusedCodes(a, usedNow) ==
    SelectSeq(myReferralCodes(a), LAMBDA c : c \notin usedNow)

\* self.addresses[:AUTO_UPDATE_INVITES_FROM_FIRST_COUNT] (main.py:52, 56)
from_addresses == [i \in 1..Min(FromFirstCount, NumAccounts) |-> i]

Max(a, b) == IF a > b THEN a ELSE b

Tasks == 0..(Max(THREADS_NUM, NumCallers) - 1)

IdleTask ==
    [pc |-> "start", pos |-> 1, used_invites |-> 0, account |-> 0,
     invite |-> None, invite_used |-> FALSE, info |-> NoInfo,
     todo |-> <<>>, max_use |-> None, raddr |-> 0, rinfo |-> NoInfo,
     ret |-> "process_account", refilled |-> FALSE, left_empty |-> FALSE,
     error |-> "none"]

\* the frame below the pool's method: process_account, or a direct caller
DirectCall(rec) == rec.ret # "process_account"

\* ------------------------------------------------ InvitesHandler (main.py)
\* get_invite's body under the lock (main.py:39-41): <<result, pool after>>
get_invite_peek(p) == IF Len(p) = 0 THEN <<None, p>> ELSE <<Head(p), p>>
get_invite_last(p) ==
    IF Len(p) = 0 THEN <<None, p>> ELSE <<p[Len(p)], SubSeq(p, 1, Len(p) - 1)>>
get_invite(p) == IF Len(p) = 0 THEN <<None, p>> ELSE <<Head(p), Tail(p)>>

\* asyncio.Lock.acquire returns at once when the lock is free and nobody waits
acquire_barging(holder, queue) == TRUE
acquire_now(holder, queue) == holder = NoOne /\ queue = <<>>

\* release() wakes the first waiter; the lock is its own when it resumes
Granted(w) == lockHolder = NoOne /\ lockQueue # <<>> /\ Head(lockQueue) = w

\* The part of the state a chain of calls without suspension works on.
Env(w) == [pool |-> pool, holder |-> lockHolder, queue |-> lockQueue,
           rec |-> wk[w], popLog |-> popLog]

Commit(e, w) ==
    /\ pool' = e.pool
    /\ lockHolder' = e.holder
    /\ lockQueue' = e.queue
    /\ wk' = [wk EXCEPT ![w] = e.rec]
    /\ popLog' = e.popLog

\* Storage's `async with self.lock` around one synchronous call
\* (storage.py:38-48): the lock is released when the block is left
Storage_lock_kept(w) == w
Storage_lock_exit(w) == NoOne

\* get_account_info / set_account_info called by task w: entered with the
\* lock free, left without suspension in between
StorageCall(w) == storeLock = NoOne /\ storeLock' = Storage_lock_exit(w)

\* the woken waiter leaves the queue (asyncio.Lock.acquire's finally clause)
Woken(e) == [e EXCEPT !.queue = Tail(@)]

\* an exception leaves process_account for process_batch's except clause
Raise(e) == [e EXCEPT !.rec.pc = "except222"]

\* the exception that is raised, or caught at main.py:165
Failing(e, err) == [e EXCEPT !.rec.error = err]

\* get_invite entered with the lock taken: pop, release, and the code that
\* follows the call: main.py:159-162 for the second call of an iteration
Popped159_unchecked(e) ==
    LET r == get_invite(e.pool)
    IN  [e EXCEPT !.pool = r[2], !.rec.invite = r[1], !.rec.pc = "use164",
                  !.popLog = IF r[1] = None THEN @ ELSE Append(@, r[1])]
Popped159(e) ==
    LET r == get_invite(e.pool)
        e1 == [e EXCEPT !.pool = r[2], !.rec.invite = r[1],
                        !.popLog = IF r[1] = None THEN @ ELSE Append(@, r[1])]
    IN  IF r[1] = None THEN Raise(Failing(e1, "no_invites"))
        ELSE [e1 EXCEPT !.rec.pc = "use164"]

Get159(e, w) ==
    IF acquire_now(e.holder, e.queue) THEN Popped159(e)
    ELSE [e EXCEPT !.queue = Append(@, w), !.rec.pc = "wait159"]

\* update_invites with the lock taken (main.py:47-57): the no-op path sleeps
\* inside the lock; the refill path starts its loop over from_addresses
UpdateBodyAlwaysRefills(e, w) ==
    [e EXCEPT !.holder = w, !.rec.pc = "upd_loop62",
              !.rec.todo = from_addresses,
              !.rec.max_use = IF cfg.tuple THEN MaxUse ELSE None,
              !.rec.refilled = TRUE]
UpdateBody(e, w) ==
    IF Len(e.pool) # 0
    THEN [e EXCEPT !.holder = w, !.rec.pc = "upd_sleep48"]
    ELSE [e EXCEPT !.holder = w, !.rec.pc = "upd_loop62",
                   !.rec.todo = from_addresses,
                   !.rec.max_use = IF cfg.tuple THEN MaxUse ELSE None,
                   !.rec.refilled = TRUE]

CallUpdate(e, w) ==
    IF acquire_now(e.holder, e.queue) THEN UpdateBody(e, w)
    ELSE [e EXCEPT !.queue = Append(@, w), !.rec.pc = "upd_wait45"]

\* end of a refill, by return or by exception: note a pool left empty
RefillEnds(e) == [e EXCEPT !.rec.left_empty = (Len(e.pool) = 0)]

LeftHolding(e) ==
    [e EXCEPT !.rec.todo = <<>>, !.rec.max_use = None,
              !.rec.raddr = 0, !.rec.rinfo = NoInfo,
              !.rec.refilled = (@ /\ DirectCall(e.rec)),
              !.rec.left_empty = (@ /\ DirectCall(e.rec))]

\* the frame of update_invites is gone; a direct caller keeps what it saw
Left(e) ==
    [e EXCEPT !.holder = NoOne, !.rec.todo = <<>>, !.rec.max_use = None,
              !.rec.raddr = 0, !.rec.rinfo = NoInfo,
              !.rec.refilled = (@ /\ DirectCall(e.rec)),
              !.rec.left_empty = (@ /\ DirectCall(e.rec))]

\* update_invites returns (lock released by `async with`): process_account
\* goes on to its second get_invite (main.py:159)
ReturnFromUpdate(e, w) ==
    LET e1 == Left(e)
    IN  IF DirectCall(e.rec) THEN [e1 EXCEPT !.rec.pc = "returned"]
        ELSE Get159(e1, w)

\* as if a failed refill took back what it had appended
RaiseFromUpdateRollingBack(e) ==
    LET e1 == [Left(e) EXCEPT !.pool = <<>>]
    IN  IF DirectCall(e.rec) THEN [e1 EXCEPT !.rec.pc = "raised"]
        ELSE Raise(Failing(e1, "update_failed"))

\* main.py:84-85: any exception leaves as 'Update invites failed'
RaiseFromUpdate(e) ==
    LET e1 == Left(e)
    IN  IF DirectCall(e.rec) THEN [e1 EXCEPT !.rec.pc = "raised"]
        ELSE Raise(Failing(e1, "update_failed"))

\* the first get_invite of an iteration (main.py:155-158)
Popped155(e, w) ==
    LET r == get_invite(e.pool)
        e1 == [e EXCEPT !.pool = r[2], !.rec.invite = r[1],
                        !.popLog = IF r[1] = None THEN @ ELSE Append(@, r[1])]
    IN  IF DirectCall(e.rec) THEN [e1 EXCEPT !.rec.pc = "returned"]
        ELSE IF r[1] # None THEN [e1 EXCEPT !.rec.pc = "use164"]
        ELSE IF cfg.autoUpdate THEN CallUpdate(e1, w)
        ELSE Get159(e1, w)

Get155(e, w) ==
    IF acquire_now(e.holder, e.queue) THEN Popped155(e, w)
    ELSE [e EXCEPT !.queue = Append(@, w), !.rec.pc = "wait155"]

\* ------------------------------------------------------- update_invites
UpdWait(w) ==
    /\ wk[w].pc = "upd_wait45"
    /\ Granted(w)
    /\ Commit(UpdateBody(Woken(Env(w)), w), w)
    /\ UNCHANGED <<cfg, used, store, outcome, redeemed, pool0, notRun>>

\* main.py:48-49: the pause is over; return
UpdSleep(w) ==
    /\ wk[w].pc = "upd_sleep48"
    /\ Commit(ReturnFromUpdate(Env(w), w), w)
    /\ UNCHANGED <<cfg, used, store, outcome, redeemed, pool0, notRun>>

RemoveAt(s, i) == [j \in 1..(Len(s) - 1) |-> IF j < i THEN s[j] ELSE s[j + 1]]

\* main.py:62-69 and 96-100: the head of one iteration, up to refresh's first
\* network call; main.py:79-82 when the loop is over.  random.shuffle of
\* from_addresses is drawn lazily: any remaining address may come next.
UpdLoop(w) ==
    /\ wk[w].pc = "upd_loop62"
    /\ LET rec == wk[w]
           e == Env(w)
       IN  IF rec.todo = <<>> \/ (rec.max_use # None /\ rec.max_use <= 0)
           THEN /\ \E p \in (IF cfg.tuple THEN Perms(pool) ELSE {pool}) :
                      Commit(ReturnFromUpdate(RefillEnds([e EXCEPT !.pool = p]), w), w)
                /\ UNCHANGED storeLock
           ELSE /\ \E i \in (IF cfg.tuple THEN 1..Len(rec.todo) ELSE {1}) :
                      LET a == rec.todo[i]
                          rest == RemoveAt(rec.todo, i)
                      IN  IF store[a] = NoInfo
                          THEN Commit([e EXCEPT !.rec.todo = rest], w)
                          ELSE Commit([e EXCEPT !.rec.todo = rest,
                                                !.rec.raddr = a,
                                                !.rec.rinfo = store[a],
                                                !.rec.pc = "upd_net106"], w)
                /\ StorageCall(w)
    /\ UNCHANGED <<cfg, used, store, outcome, redeemed, pool0, notRunStore>>

\* main.py:101-115 and 70-77: refresh's network calls end.  Either one raises,
\* or sign-in reports that an invite is needed (refresh returns None), or the
\* profile is fetched, stored, and its unused codes are appended to the pool.
UpdNet(w) ==
    /\ wk[w].pc = "upd_net106"
    /\ LET rec == wk[w]
           e == Env(w)
           a == rec.raddr
           codes == UnusedCodes(a, used)
       IN  \/ /\ Commit(RaiseFromUpdate(RefillEnds(e)), w)
              /\ UNCHANGED <<store, storeLock>>
           \/ /\ Commit([e EXCEPT !.rec.pc = "upd_loop62", !.rec.raddr = 0,
                                  !.rec.rinfo = NoInfo], w)
              /\ UNCHANGED <<store, storeLock>>
           \/ /\ store' = [store EXCEPT ![a] = [rec.rinfo EXCEPT !.invite_codes = codes]]
              /\ StorageCall(w)
              /\ Commit([e EXCEPT !.pool = @ \o codes,
                                  !.popLog = IF codes = <<>> THEN @ ELSE <<>>,
                                  !.rec.max_use = IF Len(codes) > 0 /\ @ # None
                                                  THEN @ - 1 ELSE @,
                                  !.rec.pc = "upd_loop62", !.rec.raddr = 0,
                                  !.rec.rinfo = NoInfo], w)
    /\ UNCHANGED <<cfg, used, outcome, redeemed, pool0, notRunStore>>

\* a get_invite caller resumes with the lock (line 155 or line 159)
Wait155(w) ==
    /\ wk[w].pc = "wait155"
    /\ Granted(w)
    /\ Commit(Popped155(Woken(Env(w)), w), w)
    /\ UNCHANGED <<cfg, used, store, outcome, redeemed, pool0, notRun>>

Wait159(w) ==
    /\ wk[w].pc = "wait159"
    /\ Granted(w)
    /\ Commit(Popped159(Woken(Env(w))), w)
    /\ UNCHANGED <<cfg, used, store, outcome, redeemed, pool0, notRun>>

\* -------------------------------------- process_batch / process_account
\* the for loop of process_batch goes to its next account (main.py:215);
\* its except clause (main.py:222-231) logs the error and falls through to it
NextAccountSkipping(rec) == [rec EXCEPT !.pc = "start", !.pos = @ + 2]
NextAccount(rec) == [rec EXCEPT !.pc = "start", !.pos = @ + 1]
AbortBatch(rec) == [rec EXCEPT !.pc = "batch_done"]
AfterException(rec) == NextAccount(rec)

\* main.py:215-219, 127-146: the pause before an account is over; the account
\* info is read from the store (a deep copy) or created
StartAccount(w) ==
    /\ wk[w].pc = "start"
    /\ wk[w].ret = "process_account"
    /\ IF wk[w].pos > Len(Batches[w])
       THEN /\ wk' = [wk EXCEPT ![w].pc = "batch_done"]
            /\ UNCHANGED <<outcome, storeLock>>
       ELSE LET a == Batches[w][wk[w].pos]
            IN  /\ wk' = [wk EXCEPT ![w] =
                        [@ EXCEPT !.pc = "sign_in152", !.account = a,
                                  !.info = IF store[a] = NoInfo
                                           THEN NewAccountInfo(a) ELSE store[a],
                                  !.invite = None, !.invite_used = FALSE]]
                /\ outcome' = [outcome EXCEPT ![a] = "started"]
                /\ StorageCall(w)
    /\ UNCHANGED <<cfg, pool, lockHolder, lockQueue, used, store, redeemed,
                   pool0, popLog, notRunStore>>

\* main.py:140-155: change_ip, twitter.start and sign-in end: one of them
\* raises, or sign-in tells whether an invite is needed
SignIn(w) ==
    /\ wk[w].pc = "sign_in152"
    /\ LET e == Env(w)
       IN  \/ Commit(Raise(Failing(e, "other")), w)
           \/ Commit(Get155(e, w), w)
           \/ Commit([e EXCEPT !.rec.pc = "refresh176"], w)
    /\ UNCHANGED <<cfg, used, store, outcome, redeemed, pool0, notRun>>

\* main.py:165-169: 'Code not found or already used' is caught and the loop
\* goes on with another get_invite
AlreadyUsedRaises(e, w) == Raise(Failing(e, "already_used"))
AlreadyUsed(e, w) == Get155(Failing(e, "already_used"), w)

\* main.py:163-171: use_invite_code ends.  The platform refuses a redeemed
\* code ('Code not found or already used'); otherwise it redeems it, or the
\* call fails for another reason.
Use164(w) ==
    /\ wk[w].pc = "use164"
    /\ LET e == Env(w)
           c == wk[w].invite
       IN  \/ /\ c \in used
              /\ Commit(AlreadyUsed(e, w), w)
              /\ UNCHANGED <<used, redeemed>>
           \/ /\ c \notin used
              /\ used' = used \cup {c}
              /\ redeemed' = redeemed + 1
              /\ Commit([e EXCEPT !.rec.invite_used = TRUE,
                                  !.rec.error = "none",
                                  !.rec.pc = "refresh176"], w)
           \/ /\ Commit(Raise(Failing(e, "use_invite")), w)
              /\ UNCHANGED <<used, redeemed>>
    /\ UNCHANGED <<cfg, store, outcome, pool0, notRun>>

\* Account.refresh_profile (account.py:53-57) on the task's account info
Refreshed(rec) ==
    [rec EXCEPT !.info.invite_codes = UnusedCodes(rec.account, used)]

\* as if get_final_account_info handed out the stored object itself
LocalStepAliased(w, rec) ==
    /\ wk' = [wk EXCEPT ![w] = rec]
    /\ store' = [store EXCEPT ![rec.account] = rec.info]
    /\ UNCHANGED <<cfg, pool, lockHolder, lockQueue, used, outcome,
                   redeemed, pool0, popLog, notRun>>

LocalStep(w, rec) ==
    /\ wk' = [wk EXCEPT ![w] = rec]
    /\ UNCHANGED <<cfg, pool, lockHolder, lockQueue, used, store, outcome,
                   redeemed, pool0, popLog, notRun>>

Raised(rec) == [rec EXCEPT !.pc = "except222", !.error = "other"]

\* main.py:175-176
Refresh176(w) ==
    /\ wk[w].pc = "refresh176"
    /\ \/ LocalStep(w, Raised(wk[w]))
       \/ LocalStep(w, [Refreshed(wk[w]) EXCEPT !.pc = "tail181"])

\* main.py:180-198: quests, wallet linking and the two claims.  These awaits
\* touch the shared state only through refresh_profile (lines 182, 197 of
\* account.py's link_wallet_if_needed, and 198), which reads the platform's
\* codes into the task's own account info; claim errors are caught (194-195).
\* The step ends the last of these calls: one of them raised, or none of the
\* refreshes ran, or the last refresh read the codes.
Tail181(w) ==
    /\ wk[w].pc = "tail181"
    /\ \/ LocalStep(w, Raised(wk[w]))
       \/ LocalStep(w, [wk[w] EXCEPT !.pc = "check201"])
       \/ LocalStep(w, [Refreshed(wk[w]) EXCEPT !.pc = "check201"])

\* main.py:201-207 and 219-221: check_insights raises, or the account info is
\* written to the store and process_batch counts the result
Check201(w) ==
    /\ wk[w].pc = "check201"
    /\ LET rec == wk[w]
           a == rec.account
       IN  \/ /\ wk' = [wk EXCEPT ![w] = Raised(rec)]
              /\ UNCHANGED <<store, outcome, storeLock>>
           \/ /\ store' = [store EXCEPT ![a] = rec.info]
              /\ StorageCall(w)
              /\ outcome' = [outcome EXCEPT ![a] = "returned"]
              /\ wk' = [wk EXCEPT ![w] = NextAccount(
                          [rec EXCEPT !.used_invites =
                               IF rec.invite_used THEN @ + 1 ELSE @])]
    /\ UNCHANGED <<cfg, pool, lockHolder, lockQueue, used, redeemed, pool0,
                   popLog, notRunStore>>

\* main.py:222-231
Except222(w) ==
    /\ wk[w].pc = "except222"
    /\ outcome' = [outcome EXCEPT ![wk[w].account] = "raised"]
    /\ wk' = [wk EXCEPT ![w] = AfterException([@ EXCEPT !.error = "none"])]
    /\ UNCHANGED <<cfg, pool, lockHolder, lockQueue, used, store, redeemed,
                   pool0, popLog, notRun>>

UpdateSteps(w) == UpdWait(w) \/ UpdSleep(w) \/ UpdLoop(w) \/ UpdNet(w)

TaskStep(w) ==
    \/ StartAccount(w) \/ SignIn(w) \/ Wait155(w) \/ Wait159(w)
    \/ UpdateSteps(w) \/ Use164(w) \/ Refresh176(w) \/ Tail181(w)
    \/ Check201(w) \/ Except222(w)

SavedBefore == [a \in Accounts |-> [address |-> a, invite_codes |-> <<a>>]]

\* main.py:245-269 and process (236-241): one task per batch
InitRun ==
    /\ cfg \in [autoUpdate : BOOLEAN, tuple : BOOLEAN]
    /\ pool \in SeqsUpTo(FileCodes, MaxFile)
    /\ pool0 = pool
    /\ lockHolder = NoOne
    /\ lockQueue = <<>>
    /\ used = {}
    /\ store \in {[a \in Accounts |-> NoInfo], SavedBefore}
    /\ wk = [w \in Tasks |-> IF w < THREADS_NUM THEN IdleTask
                                 ELSE [IdleTask EXCEPT !.pc = "off"]]
    /\ outcome = [a \in Accounts |-> "none"]
    /\ redeemed = 0
    /\ popLog = <<>>
    /\ storeLock = NoOne

IdleRun ==
    /\ cfg = [autoUpdate |-> FALSE, tuple |-> FALSE]
    /\ pool = <<>>
    /\ pool0 = <<>>
    /\ lockHolder = NoOne
    /\ lockQueue = <<>>
    /\ used = {}
    /\ store = [a \in Accounts |-> NoInfo]
    /\ wk = [w \in Tasks |-> [IdleTask EXCEPT !.pc = "off"]]
    /\ outcome = [a \in Accounts |-> "none"]
    /\ redeemed = 0
    /\ popLog = <<>>
    /\ storeLock = NoOne

\* ------------------------------- the pool's methods called concurrently
\* NumCallers tasks each call get_invite or update_invites once, directly, on
\* a pool and a store in any state; the steps inside update_invites are the
\* ones above.
CallGet(w) ==
    /\ wk[w].pc = "call_get"
    /\ Commit(Get155(Env(w), w), w)
    /\ UNCHANGED <<cfg, used, store, outcome, redeemed, pool0, notRun>>

CallUpd(w) ==
    /\ wk[w].pc = "call_upd"
    /\ Commit(CallUpdate(Env(w), w), w)
    /\ UNCHANGED <<cfg, used, store, outcome, redeemed, pool0, notRun>>

Callers == 0..(NumCallers - 1)

InitCalls ==
    /\ cfg \in [autoUpdate : {TRUE}, tuple : BOOLEAN]
    /\ pool \in SeqsUpTo(FileCodes, MaxFile)
    /\ pool0 = pool
    /\ lockHolder = NoOne
    /\ lockQueue = <<>>
    /\ used \in SUBSET FileCodes
    /\ store \in {[a \in Accounts |-> NoInfo], SavedBefore}
    /\ wk \in {f \in [Tasks -> {[IdleTask EXCEPT !.pc = "call_get", !.ret = "call_get"],
                                [IdleTask EXCEPT !.pc = "call_upd", !.ret = "call_upd"],
                                [IdleTask EXCEPT !.pc = "off"]}] :
                  \A w \in Tasks : (f[w].pc = "off") <=> (w \notin Callers)}
    /\ outcome = [a \in Accounts |-> "none"]
    /\ redeemed = 0
    /\ popLog = <<>>
    /\ storeLock = NoOne

CallerStep(w) ==
    \/ CallGet(w) \/ CallUpd(w) \/ Wait155(w)
    \/ UpdWait(w) \/ UpdSleep(w) \/ UpdLoop(w) \/ UpdNet(w)

\* ---------------------------------------- the claim transaction lifecycle
\* tx_verification's budget (account.py:227)
TxTimeout == 150
\* async_retry's attempt budget (utils.py is not among the sources)
MaxAttempts == 3
\* poll_latency: the default is 1 (account.py:223), the only value the call
\* sites use
PollLatencies == {1, 4, 50}

\* utils.async_retry, after spec.md 4.1: on a raised failure, wait and run the
\* operation again, up to the attempt budget; then the last error propagates.
async_retry_forever(t, err) ==
    [t EXCEPT !.last_error = err, !.errors = Append(@, err),
              !.pc = "retry_sleep"]
async_retry(t, err) ==
    IF t.attempt < MaxAttempts
    THEN [t EXCEPT !.last_error = err, !.errors = Append(@, err),
                   !.pc = "retry_sleep"]
    ELSE [t EXCEPT !.last_error = err, !.errors = Append(@, err),
                   !.pc = "raised", !.error = err]

\* one execution of build_and_send_tx's body begins (account.py:201-208): a
\* missing private key raises before any chain call
BeginAttempt(t) ==
    LET t1 == [t EXCEPT !.attempt = @ + 1, !.est_failed = FALSE,
                        !.refreshes = 0, !.last_error = "none",
                        !.done = <<>>]
    IN  IF ~t.key THEN async_retry(t1, "no_key")
        ELSE [t1 EXCEPT !.pc = "build206"]

\* account.py:212-215, the except clause of estimate_gas
SimulationIgnored(t) == [t EXCEPT !.est_failed = TRUE, !.pc = "send219"]
SimulationFailed(t) ==
    IF t.linked
    THEN [t EXCEPT !.est_failed = TRUE, !.refreshes = @ + 1, !.pc = "refresh214"]
    ELSE async_retry([t EXCEPT !.est_failed = TRUE], "simulation")

\* tx_verification returns (account.py:260, 267) and claim_daily_insight
\* returns 1 (account.py:301-303)
ResubmitOnFailure(t, how) ==
    IF how = "success" THEN [t EXCEPT !.outcome = how, !.pc = "returned", !.result = 1]
    ELSE BeginAttempt([t EXCEPT !.outcome = how, !.attempt = 0])
Verified(t, how) == [t EXCEPT !.outcome = how, !.pc = "returned", !.result = 1]

\* account.py:227, the loop condition
KeepPollingInclusive(time_passed) == time_passed <= TxTimeout
KeepPolling(time_passed) == time_passed < TxTimeout

TxStep(t) == tx' = t /\ UNCHANGED <<runVars, gbVars, ioVars, storeLock, pa>>

\* account.py:280-299: check_daily_insight raises, or nothing is to claim
\* (return 0), or build_and_send_tx is called
TxCheck280 ==
    /\ tx.pc = "check280"
    /\ \/ TxStep([tx EXCEPT !.pc = "raised", !.error = "rpc"])
       \/ TxStep([tx EXCEPT !.pc = "returned", !.result = 0])
       \/ TxStep(BeginAttempt(tx))

\* async_retry's pause is over: the next attempt
TxRetry ==
    /\ tx.pc = "retry_sleep"
    /\ TxStep(BeginAttempt(tx))

\* account.py:204-208: get_transaction_count and build_transaction end
TxBuild206 ==
    /\ tx.pc = "build206"
    /\ \/ TxStep(async_retry(tx, "rpc"))
       \/ TxStep([tx EXCEPT !.pc = "estimate210",
                            !.done = <<"nonce", "build">>])

\* account.py:209-219: estimate_gas ends; on success the transaction is
\* signed and send_raw_transaction is called
TxEstimate210 ==
    /\ tx.pc = "estimate210"
    /\ \/ TxStep(SimulationFailed(tx))
       \/ TxStep([tx EXCEPT !.pc = "send219",
                            !.done = @ \o <<"simulate", "sign">>])

\* account.py:214-215: refresh_profile ends inside the except clause; if it
\* raises, its error leaves the attempt
TxRefresh214 ==
    /\ tx.pc = "refresh214"
    /\ \/ TxStep(async_retry(tx, "refresh"))
       \/ \E l \in BOOLEAN : TxStep(async_retry([tx EXCEPT !.linked = l], "simulation"))

\* account.py:219-221 and 223-227: send_raw_transaction ends; with the hash
\* claim_daily_insight enters tx_verification (account.py:301)
TxSend219 ==
    /\ tx.pc = "send219"
    /\ \/ TxStep(async_retry(tx, "rpc"))
       \/ TxStep([tx EXCEPT !.hashes = @ + 1, !.verifs = @ + 1,
                            !.done = Append(@, "send"),
                            !.time_passed = 0, !.pc = "poll229"])

\* account.py:228-267: get_transaction_receipt ends: a receipt (status 1 or
\* not), no receipt (None or TransactionNotFound), or another error, which
\* leaves tx_verification
TxPoll229 ==
    /\ tx.pc = "poll229"
    /\ LET t == [tx EXCEPT !.polls = @ + 1]
       IN  \/ \E how \in {"success", "failed"} : TxStep(Verified(t, how))
           \/ TxStep([t EXCEPT !.pc = "raised", !.error = "rpc"])
           \/ LET passed == t.time_passed + t.latency
              IN  IF KeepPolling(passed)
                  THEN TxStep([t EXCEPT !.time_passed = passed])
                  ELSE TxStep(Verified([t EXCEPT !.time_passed = passed], "pending"))

TxOff ==
    \* errors: history, the error each failed attempt ended with; done:
    \* history, the steps of the current attempt that have succeeded
    [pc |-> "off", key |-> FALSE, linked |-> FALSE, latency |-> 1,
          attempt |-> 0, est_failed |-> FALSE, refreshes |-> 0,
          last_error |-> "none", error |-> "none", hashes |-> 0, verifs |-> 0,
          time_passed |-> 0, polls |-> 0, outcome |-> "none", result |-> None,
          errors |-> <<>>, done |-> <<>>]

IdleTx == tx = TxOff

InitTx ==
    tx \in {[TxOff EXCEPT !.pc = "check280", !.key = k, !.linked = l, !.latency = p] :
               k \in BOOLEAN, l \in BOOLEAN, p \in PollLatencies}

NextTx ==
    \/ TxCheck280 \/ TxRetry \/ TxBuild206 \/ TxEstimate210 \/ TxRefresh214
    \/ TxSend219 \/ TxPoll229

\* ------------------------------------------------- get_batches, called once
Unset == <<>>

IdleGb ==
    /\ gbIn = [wallets |-> 0, proxies |-> 0, skip |-> None, n |-> 1]
    /\ gbOut = Unset

InitGb ==
    /\ gbIn \in [wallets : 0..MaxWallets, proxies : 0..MaxProxies,
                 skip : {None} \cup 0..MaxSkip, n : 1..MaxThreads]
    /\ gbOut = Unset

CallGetBatches ==
    /\ gbOut = Unset
    /\ gbOut' = get_batches(gbIn.wallets, gbIn.proxies, gbIn.skip, gbIn.n)
    /\ UNCHANGED <<gbIn, runVars, tx, ioVars, storeLock, pa>>

NextGb == CallGetBatches

\* ------------------------------------------------ Storage (storage.py)
\* AccountInfo.to_dict and AccountInfo.from_dict (models.py is not among the
\* sources): the record as a JSON object, a list of name/value members, and
\* the record built from the members by name
to_dict(info) ==
    <<<<"address", info.address>>, <<"invite_codes", info.invite_codes>>>>

Member(d, name) ==
    LET i == CHOOSE j \in 1..Len(d) : d[j][1] = name IN d[i][2]

from_dict(d) ==
    [address |-> Member(d, "address"),
     invite_codes |-> Member(d, "invite_codes")]

\* the addresses Storage.data holds
Keys(data) == {a \in Accounts : data[a] # NoInfo}

\* the orders a dict of these keys can have
Orders(K) == {o \in [1..Cardinality(K) -> K] : IsDistinct(o)}

BlankFile == [blank |-> TRUE, members |-> <<>>]

\* Storage.save (storage.py:50-53): the file is opened with 'w', which drops
\* the old content, and gets one JSON object with a member per address
Storage_save_append(old, data, order) ==
    [blank |-> FALSE,
     members |-> old.members \o
                 [i \in 1..Len(order) |-> <<order[i], to_dict(data[order[i]])>>]]
Storage_save(old, data, order) ==
    [blank |-> FALSE,
     members |-> [i \in 1..Len(order) |-> <<order[i], to_dict(data[order[i]])>>]]

\* json.load: of members with the same name the last one counts
LastMember(members, a) ==
    LET I == {i \in 1..Len(members) : members[i][1] = a}
    IN  members[CHOOSE i \in I : \A j \in I : j <= i][2]

\* Storage.init (storage.py:16-23): a blank file is the empty mapping
Storage_init(f) ==
    [a \in Accounts |->
        IF f.blank \/ \A i \in 1..Len(f.members) : f.members[i][1] # a
        THEN NoInfo
        ELSE from_dict(LastMember(f.members, a))]

\* the records the run stores under address a (main.py:205, 114)
InfosOf(a) ==
    {[address |-> a, invite_codes |-> c] : c \in {<<>>, myReferralCodes(a)}}

NoData == [a \in Accounts |-> NoInfo]

StUnchanged ==
    UNCHANGED <<cfg, pool, lockHolder, lockQueue, used, wk, outcome, redeemed,
                pool0, popLog, gbVars, tx, dec, storeLock, pa>>

\* Storage.set_final_account_info (storage.py:31-32)
StSet ==
    /\ \E a \in Accounts : \E info \in InfosOf(a) :
           store' = [store EXCEPT ![a] = info]
    /\ sv' = [sv EXCEPT !.loaded = FALSE]
    /\ UNCHANGED file
    /\ StUnchanged

\* Storage.remove (storage.py:34-36)
StRemove ==
    /\ \E a \in Keys(store) : store' = [store EXCEPT ![a] = NoInfo]
    /\ sv' = [sv EXCEPT !.loaded = FALSE]
    /\ UNCHANGED file
    /\ StUnchanged

StSave ==
    /\ \E order \in Orders(Keys(store)) :
           file' = Storage_save(file, store, order)
    /\ sv' = [saved |-> store, loaded |-> FALSE]
    /\ UNCHANGED store
    /\ StUnchanged

StInit ==
    /\ store' = Storage_init(file)
    /\ sv' = [sv EXCEPT !.loaded = TRUE]
    /\ UNCHANGED file
    /\ StUnchanged

IdleStore ==
    /\ file = BlankFile
    /\ sv = [saved |-> NoData, loaded |-> FALSE]

IdleDec == dec = <<>>

\* a Storage object on a blank file, holding any mapping
InitStore ==
    /\ store \in {d \in [Accounts -> {NoInfo} \cup UNION {InfosOf(a) : a \in Accounts}] :
                     \A a \in Accounts : d[a] = NoInfo \/ d[a].address = a}
    /\ file = BlankFile
    /\ sv = [saved |-> NoData, loaded |-> FALSE]
    /\ cfg = [autoUpdate |-> FALSE, tuple |-> FALSE]
    /\ pool = <<>>
    /\ pool0 = <<>>
    /\ lockHolder = NoOne
    /\ lockQueue = <<>>
    /\ used = {}
    /\ wk = [w \in Tasks |-> [IdleTask EXCEPT !.pc = "off"]]
    /\ outcome = [a \in Accounts |-> "none"]
    /\ redeemed = 0
    /\ popLog = <<>>
    /\ storeLock = NoOne

NextStore == StSet \/ StRemove \/ StSave \/ StInit

\* ---------------------------------------------- receipt log decoding
\* hex digits per 32-byte word: 64 in the source, scaled down
WordWidth == 2

\* the hex digits the payloads are written with
MaxDigit == 1

\* range(0, 64 * 6, 64): the number of words read from the payload
NumWords == 6

LOG_RESULT_TOPIC == "result_topic"

\* LOG_DATA_NAME_AND_COLOR: one name per word after the two leading ones
LOG_DATA_NAMES == <<"name1", "name2", "name3", "name4">>

\* int(s, 16) of a non-empty digit string
RECURSIVE int16(_)
int16(s) ==
    IF s = <<>> THEN 0
    ELSE 16 * int16(SubSeq(s, 1, Len(s) - 1)) + s[Len(s)]

\* data[i:i+n]: a slice is clipped to the string, never out of range
Slice(s, i, n) == SubSeq(s, Min(i + 1, Len(s) + 1), Min(i + n, Len(s)))

\* the slices handed to int(_, 16); int('' , 16) raises ValueError
WordSlices(data) ==
    [k \in 1..NumWords |-> Slice(data, (k - 1) * WordWidth, WordWidth)]

\* values[2:]
SkipHeader(values) == SubSeq(values, 3, Len(values))

ReportedAll(p) == TRUE

\* if val == 0: continue
Reported(p) == p.val # 0

\* the list joined into the "Received: ..." line of one log
pretty_str(values) ==
    LET rest == SkipHeader(values)
    IN  SelectSeq([i \in 1..Len(rest) |->
                      [val |-> rest[i], name |-> LOG_DATA_NAMES[i]]],
                  Reported)

\* the for loop over the logs: an exception leaves the loop
RECURSIVE decode_logs(_, _)
decode_logs(logs, received) ==
    IF logs = <<>> THEN [raised |-> FALSE, received |-> received]
    ELSE LET log == Head(logs)
             slices == WordSlices(log.data)
         IN  IF ~log.has_topics THEN decode_logs(Tail(logs), received)
             ELSE IF log.topics = <<>>                    \* IndexError
                  THEN [raised |-> TRUE, received |-> received]
             ELSE IF log.topics[1] # LOG_RESULT_TOPIC
                  THEN decode_logs(Tail(logs), received)
             ELSE IF ~log.has_data THEN decode_logs(Tail(logs), received)
             ELSE IF \E k \in 1..NumWords : slices[k] = <<>>   \* ValueError
                  THEN [raised |-> TRUE, received |-> received]
             ELSE decode_logs(Tail(logs),
                      Append(received,
                             pretty_str([k \in 1..NumWords |-> int16(slices[k])])))

\* try: ... except: pass
except_pass(r) ==
    [raised |-> FALSE, failed |-> r.raised, received |-> r.received]

Digits == 0..MaxDigit

WordStrings == [1..WordWidth -> Digits]

RECURSIVE Flatten(_)
Flatten(ws) == IF ws = <<>> THEN <<>> ELSE Head(ws) \o Flatten(Tail(ws))

OnesData == [i \in 1..(NumWords * WordWidth) |-> 1]

\* payloads of NumWords words; the two leading words are all ones
FullData ==
    {SubSeq(OnesData, 1, 2 * WordWidth) \o Flatten(ws) :
        ws \in [1..(NumWords - 2) -> WordStrings]}

\* whole payloads, truncated payloads and payloads with a digit too many
Payloads ==
    {SubSeq(d, 1, n) : d \in FullData, n \in 0..(NumWords * WordWidth)}
        \cup {Append(d, 0) : d \in FullData}

Log(ht, t, hd, d) == [has_topics |-> ht, topics |-> t, has_data |-> hd, data |-> d]

\* the logs that may precede the last one
PrefixLogs ==
    { Log(FALSE, <<>>, TRUE, OnesData),
      Log(TRUE, <<>>, TRUE, OnesData),
      Log(TRUE, <<"other_topic">>, TRUE, OnesData),
      Log(TRUE, <<LOG_RESULT_TOPIC>>, FALSE, <<>>),
      Log(TRUE, <<LOG_RESULT_TOPIC>>, TRUE, SubSeq(OnesData, 1, WordWidth)),
      Log(TRUE, <<LOG_RESULT_TOPIC>>, TRUE, OnesData) }

LastLogs ==
    PrefixLogs \cup {Log(TRUE, <<LOG_RESULT_TOPIC>>, TRUE, d) : d \in Payloads}

LogLists ==
    {<<>>} \cup {<<l>> : l \in LastLogs}
           \cup {<<p, l>> : p \in PrefixLogs, l \in LastLogs}

NoOutput == [raised |-> FALSE, failed |-> FALSE, received |-> <<>>]

\* a receipt was fetched; its logs are about to be decoded
InitDec ==
    dec \in [pc : {"logs236"}, logs : LogLists, out : {NoOutput}]

\* account.py:235-260: decode the logs, swallow any error, return
Decode ==
    /\ dec.pc = "logs236"
    /\ dec' = [dec EXCEPT !.pc = "return260",
                          !.out = except_pass(decode_logs(dec.logs, <<>>))]
    /\ UNCHANGED <<runVars, gbVars, tx, file, sv, storeLock, pa>>

NextDec == Decode

\* ------------------------------------------------- the refresh pass
\* main.py:298: process(get_batches(), ..., refresh_account): every account,
\* nothing skipped
RefreshBatches == get_batches(NumAccounts, 1, None, THREADS_NUM)

\* main.py:122 and 219-221: refresh_account returns a new ProcessResult, whose
\* invite_used is False, so process_batch counts nothing
RefreshResultCounted(rec) == NextAccount([rec EXCEPT !.used_invites = @ + 1])
RefreshResult(rec) == NextAccount(rec)

RFrame ==
    UNCHANGED <<cfg, pool, lockHolder, lockQueue, used, redeemed, pool0,
                popLog, notRunStore>>

\* main.py:215-219, 118-122 and 96-100: the next account of the batch; refresh
\* reads its record and returns None when there is none
RStart(w) ==
    /\ wk[w].pc = "start"
    /\ wk[w].ret = "refresh_account"
    /\ IF wk[w].pos > Len(RefreshBatches[w])
       THEN /\ wk' = [wk EXCEPT ![w].pc = "batch_done"]
            /\ UNCHANGED <<outcome, storeLock>>
       ELSE LET a == RefreshBatches[w][wk[w].pos]
            IN  /\ StorageCall(w)
                /\ IF store[a] = NoInfo
                   THEN /\ wk' = [wk EXCEPT ![w] =
                                    RefreshResult([@ EXCEPT !.account = a])]
                        /\ outcome' = [outcome EXCEPT ![a] = "no_record"]
                   ELSE /\ wk' = [wk EXCEPT ![w] =
                                    [@ EXCEPT !.pc = "r_sign108", !.account = a,
                                              !.info = store[a]]]
                        /\ outcome' = [outcome EXCEPT ![a] = "started"]
    /\ UNCHANGED store
    /\ RFrame

\* main.py:101-110: change_ip, twitter.start and sign-in end: one of them
\* raises, or sign-in reports that an invite is needed and refresh returns
\* None, or the account is signed in
RSign(w) ==
    /\ wk[w].pc = "r_sign108"
    /\ \/ /\ wk' = [wk EXCEPT ![w] = Raised(@)]
          /\ UNCHANGED outcome
       \/ /\ wk' = [wk EXCEPT ![w] = RefreshResult(@)]
          /\ outcome' = [outcome EXCEPT ![wk[w].account] = "needs_invite"]
       \/ /\ wk' = [wk EXCEPT ![w].pc = "r_refresh112"]
          /\ UNCHANGED outcome
    /\ UNCHANGED <<store, storeLock>>
    /\ RFrame

\* main.py:111-115: refresh_profile and check_insights end: one of them
\* raises, or the refreshed record is written and refresh_account returns
RRefresh(w) ==
    /\ wk[w].pc = "r_refresh112"
    /\ \/ /\ wk' = [wk EXCEPT ![w] = Raised(@)]
          /\ UNCHANGED <<store, outcome, storeLock>>
       \/ LET rec == Refreshed(wk[w])
          IN  /\ store' = [store EXCEPT ![rec.account] = rec.info]
              /\ StorageCall(w)
              /\ wk' = [wk EXCEPT ![w] = RefreshResult(rec)]
              /\ outcome' = [outcome EXCEPT ![rec.account] = "returned"]
    /\ RFrame

\* the state the first pass may leave: any pool, any codes redeemed, records
\* for any of the accounts
InitRefresh ==
    /\ cfg \in [autoUpdate : BOOLEAN, tuple : {FALSE}]
    /\ pool \in SeqsUpTo(FileCodes, MaxFile)
    /\ pool0 = pool
    /\ lockHolder = NoOne
    /\ lockQueue = <<>>
    /\ used \in SUBSET Codes
    /\ store \in {d \in [Accounts -> {NoInfo} \cup UNION {InfosOf(a) : a \in Accounts}] :
                     \A a \in Accounts : d[a] = NoInfo \/ d[a].address = a}
    /\ wk = [w \in Tasks |-> IF w < THREADS_NUM
                             THEN [IdleTask EXCEPT !.ret = "refresh_account"]
                             ELSE [IdleTask EXCEPT !.pc = "off"]]
    /\ outcome = [a \in Accounts |-> "none"]
    /\ redeemed = 0
    /\ popLog = <<>>
    /\ storeLock = NoOne

RefreshStep(w) == RStart(w) \/ RSign(w) \/ RRefresh(w) \/ Except222(w)

NextRefresh == \E w \in Tasks : RefreshStep(w)

\* ------------------------------------ the tail of one process_account call
\* main.py:179-207 for one account whose sign-in and invite are behind it,
\* with the two claims run by the claim lifecycle of the tx variable.
PaOff ==
    \* do_tasks, claim_daily, claim_rank: DO_TASKS, CLAIM_DAILY_INSIGHT and
    \* CLAIM_RANK_INSIGHTS; linked0: the profile names a linked address;
    \* key: Account.private_key is set; daily, rank: history, how each claim
    \* ended; attempts: history, executions of build_and_send_tx's body;
    \* error: history, what process_account raised; stored: the record was
    \* written by set_account_info
    [pc |-> "off", do_tasks |-> FALSE, claim_daily |-> FALSE,
     claim_rank |-> FALSE, linked0 |-> FALSE, key |-> FALSE, claimed |-> 0,
     daily |-> "not_run", rank |-> "not_run", attempts |-> 0,
     claim_error |-> FALSE, error |-> "none", stored |-> FALSE]

IdlePa == pa = PaOff

PaFrame == UNCHANGED <<runVars, gbVars, ioVars, storeLock>>

PaStep(p) == pa' = p /\ UNCHANGED tx /\ PaFrame

\* an exception leaves process_account
PaRaise(p, err) == [p EXCEPT !.pc = "raised", !.error = err]

\* main.py:180-182: do_quests and the refresh_profile after it
PaQuests180 ==
    /\ pa.pc = "quests180"
    /\ IF ~pa.do_tasks THEN PaStep([pa EXCEPT !.pc = "link184"])
       ELSE \/ PaStep(PaRaise(pa, "quests"))
            \/ PaStep(PaRaise(pa, "refresh"))
            \/ PaStep([pa EXCEPT !.pc = "link184"])

\* account.py:198: link_wallet_if_needed binds the key as its last statement
LinkedWithoutKey(p) == [p EXCEPT !.pc = "claims186"]
Linked(p) == [p EXCEPT !.key = TRUE, !.pc = "claims186"]

\* main.py:184 and account.py:188-198: with no linked address, link_wallet or
\* the refresh_profile after it may raise
PaLink184 ==
    /\ pa.pc = "link184"
    /\ IF pa.linked0 THEN PaStep(Linked(pa))
       ELSE \/ PaStep(PaRaise(pa, "link"))
            \/ PaStep(Linked(pa))

\* a claim method is called on the account context
StartClaim(l) ==
    tx' = [TxOff EXCEPT !.pc = "check280", !.key = pa.key, !.linked = l]

\* main.py:186-192: the try block is entered
PaClaims186 ==
    /\ pa.pc = "claims186"
    /\ IF pa.claim_daily
       THEN /\ pa' = [pa EXCEPT !.pc = "daily189"]
            /\ \E l \in BOOLEAN : StartClaim(l)
       ELSE IF pa.claim_rank
       THEN /\ pa' = [pa EXCEPT !.pc = "rank192"]
            /\ \E l \in BOOLEAN : StartClaim(l)
       ELSE pa' = [pa EXCEPT !.pc = "after196"] /\ UNCHANGED tx
    /\ PaFrame

\* main.py:194-195: except Exception logs the claim error and goes on
ClaimFailedRaises(p) == [p EXCEPT !.claim_error = TRUE, !.pc = "raised", !.error = "claim"]
ClaimFailed(p) == [p EXCEPT !.claim_error = TRUE, !.pc = "after196"]

\* main.py:189-192: claim_daily_insight ends
PaDaily189 ==
    /\ pa.pc = "daily189"
    /\ tx.pc \in {"returned", "raised"}
    /\ LET p == [pa EXCEPT !.attempts = @ + tx.attempt]
       IN  IF tx.pc = "raised"
           THEN /\ pa' = ClaimFailed([p EXCEPT !.daily = "raised"])
                /\ tx' = TxOff
           ELSE LET p1 == [p EXCEPT !.daily = "returned", !.claimed = @ + tx.result]
                IN  IF pa.claim_rank
                    THEN /\ pa' = [p1 EXCEPT !.pc = "rank192"]
                         /\ \E l \in BOOLEAN : StartClaim(l)
                    ELSE /\ pa' = [p1 EXCEPT !.pc = "after196"]
                         /\ tx' = TxOff
    /\ PaFrame

\* main.py:192-193: claim_rank_insights ends (account.py:313-324: the count is
\* read, below the threshold nothing is claimed, else build_and_send_tx and
\* tx_verification as in the daily claim)
PaRank192 ==
    /\ pa.pc = "rank192"
    /\ tx.pc \in {"returned", "raised"}
    /\ LET p == [pa EXCEPT !.attempts = @ + tx.attempt]
       IN  IF tx.pc = "raised"
           THEN pa' = ClaimFailed([p EXCEPT !.rank = "raised"])
           ELSE pa' = [p EXCEPT !.rank = "returned", !.claimed = @ + tx.result,
                                !.pc = "after196"]
    /\ tx' = TxOff
    /\ PaFrame

\* main.py:197-198
PaAfter196 ==
    /\ pa.pc = "after196"
    /\ IF pa.claimed > 0
       THEN \/ PaStep(PaRaise(pa, "refresh"))
            \/ PaStep([pa EXCEPT !.pc = "check201"])
       ELSE PaStep([pa EXCEPT !.pc = "check201"])

\* main.py:201-207: check_insights, set_account_info, return
PaCheck201 ==
    /\ pa.pc = "check201"
    /\ \/ PaStep(PaRaise(pa, "check_insights"))
       \/ PaStep([pa EXCEPT !.stored = TRUE, !.pc = "returned"])

InitPa ==
    pa \in {[PaOff EXCEPT !.pc = "quests180", !.do_tasks = q, !.claim_daily = d,
                          !.claim_rank = r, !.linked0 = l] :
               q \in BOOLEAN, d \in BOOLEAN, r \in BOOLEAN, l \in BOOLEAN}

NextPa ==
    \/ PaQuests180 \/ PaLink184 \/ PaClaims186 \/ PaDaily189 \/ PaRank192
    \/ PaAfter196 \/ PaCheck201
    \/ NextTx

\* ---------------------------------------------------------- specifications
\* the full-processing pass of main: one task per batch
Init == InitRun /\ IdleGb /\ IdleTx /\ IdleStore /\ IdleDec /\ IdlePa

InitCallsOnly == InitCalls /\ IdleGb /\ IdleTx /\ IdleStore /\ IdleDec /\ IdlePa

InitTxOnly == InitTx /\ IdleRun /\ IdleGb /\ IdleStore /\ IdleDec /\ IdlePa

InitGbOnly == InitGb /\ IdleRun /\ IdleTx /\ IdleStore /\ IdleDec /\ IdlePa

InitStoreOnly == InitStore /\ IdleGb /\ IdleTx /\ IdleDec /\ IdlePa

InitDecOnly == InitDec /\ IdleRun /\ IdleGb /\ IdleTx /\ IdleStore /\ IdlePa

InitPaOnly == InitPa /\ IdleRun /\ IdleGb /\ IdleTx /\ IdleStore /\ IdleDec

InitRefreshOnly == InitRefresh /\ IdleGb /\ IdleTx /\ IdleStore /\ IdleDec /\ IdlePa

NextCalls == \E w \in Tasks : CallerStep(w)

Next == \E w \in Tasks : TaskStep(w)

Spec == Init /\ [][Next]_vars

\* the event loop runs every task that can run; collaborator calls return
FairSpec == Spec /\ \A w \in Tasks : WF_vars(TaskStep(w))

\* concurrent direct calls of get_invite and update_invites
SpecCalls == InitCallsOnly /\ [][NextCalls]_vars

\* one claim_daily_insight invocation
SpecTx == InitTxOnly /\ [][NextTx]_vars

\* one get_batches call
SpecGb == InitGbOnly /\ [][NextGb]_vars

\* one Storage object and its file
SpecStore == InitStoreOnly /\ [][NextStore]_vars

\* one decoding of a fetched receipt's logs
SpecDec == InitDecOnly /\ [][NextDec]_vars

\* one process_account call from its quests on, with its claims
SpecPa == InitPaOnly /\ [][NextPa]_vars

\* the refresh pass of main: one task per batch
SpecRefresh == InitRefreshOnly /\ [][NextRefresh]_vars

\* ------------------------------------------------------------ C3 (SpecGb)
\* the entries get_batches distributes: none when the proxies list is empty
\* (zip stops at the shortest input), else those after the first skip
GbSkipped == IF gbIn.skip = None THEN 0 ELSE gbIn.skip
GbRemaining ==
    IF gbIn.proxies = 0 THEN 0 ELSE Max(0, gbIn.wallets - GbSkipped)
GbCount(b) == Cardinality({k \in 0..(GbRemaining - 1) : k % gbIn.n = b})
GbTimes(i) ==
    Cardinality({<<b, j>> \in (DOMAIN gbOut) \X (1..gbIn.wallets) :
                     j <= Len(gbOut[b]) /\ gbOut[b][j] = i})

\* C3 as stated: get_batches returns exactly N batches in which every account
\* of the list of length M appears exactly once, the account at list position
\* k in batch k mod N, each batch in list order.
C3_EveryAccountOnce ==
    gbOut # Unset =>
        /\ DOMAIN gbOut = 0..(gbIn.n - 1)
        /\ \A i \in 1..gbIn.wallets : GbTimes(i) = 1
        /\ \A b \in DOMAIN gbOut : \A j \in 1..Len(gbOut[b]) :
               /\ (gbOut[b][j] - 1) % gbIn.n = b
               /\ j > 1 => gbOut[b][j - 1] < gbOut[b][j]

\* C3, amended: get_batches returns exactly N batches that partition the
\* entries it distributes, which are the list without its first skip entries
\* and nothing at all when there is no proxy; the entry at position k of that
\* remaining list is in batch k mod N, at place k div N of it, so batches keep
\* list order, every remaining entry appears exactly once and a skipped
\* account appears in no batch.
C3_PartitionOfRemaining ==
    gbOut # Unset =>
        /\ DOMAIN gbOut = 0..(gbIn.n - 1)
        /\ \A b \in DOMAIN gbOut :
               gbOut[b] = [j \in 1..GbCount(b) |->
                               GbSkipped + b + (j - 1) * gbIn.n + 1]
        /\ \A i \in 1..gbIn.wallets :
               GbTimes(i) = IF i > GbSkipped /\ gbIn.proxies > 0 THEN 1 ELSE 0

\* four accounts, the first skipped, two batches
C3_Witness ==
    /\ gbOut # Unset
    /\ gbIn = [wallets |-> 4, proxies |-> 1, skip |-> 1, n |-> 2]
    /\ gbOut[0] = <<2, 4>>
    /\ gbOut[1] = <<3>>

\* ------------------------------------------------------------ C8 (SpecTx)
\* C8: once send_raw_transaction has returned a hash, build_and_send_tx is
\* not executed again, whatever the verification reports: there is at most
\* one hash per claim_daily_insight invocation, tx_verification is entered
\* exactly once for it, and after the hash the invocation is polling or over.
C8_ConfirmNeverRetried ==
    /\ tx.verifs = tx.hashes
    /\ tx.hashes <= 1
    /\ tx.hashes = 1 => tx.pc \in {"poll229", "returned", "raised"}
    /\ tx.outcome # "none" => tx.hashes = 1 /\ tx.pc = "returned"

\* a receipt with status 0 after a first attempt that failed before sending
C8_Witness ==
    /\ tx.outcome = "failed"
    /\ tx.attempt = 2
    /\ tx.hashes = 1
    /\ tx.pc = "returned"

\* ------------------------------------------------------------ C9 (SpecTx)
\* C9: tx_verification polls a bounded number of times, the 150 second
\* budget divided by poll_latency (rounded up); when no receipt has come
\* within the budget it ends without raising, in the pending outcome, which
\* is neither success nor failed, and it polls only while time_passed is
\* below the budget.
C9_PendingAfterBudget ==
    /\ (tx.polls - 1) * tx.latency < TxTimeout
    /\ tx.pc = "poll229" => tx.time_passed < TxTimeout
    /\ tx.pc = "poll229" => tx.time_passed = tx.polls * tx.latency
    /\ tx.outcome = "pending" =>
           /\ tx.pc = "returned"
           /\ tx.error = "none"
           /\ tx.result = 1
           /\ tx.polls * tx.latency >= TxTimeout
    /\ tx.outcome \in {"success", "failed"} =>
           (tx.polls - 1) * tx.latency = tx.time_passed

\* with the default poll_latency of 1, the 150th poll ends the budget
C9_Witness ==
    /\ tx.outcome = "pending"
    /\ tx.latency = 1
    /\ tx.polls = 150
    /\ tx.pc = "returned"

\* ----------------------------------------------------------- C10 (SpecTx)
\* C10 as stated: when estimate_gas fails, the attempt ends with the
\* simulation error, also when the profile refresh itself fails; it is
\* preceded by exactly one refresh_profile call when linkedAddress equals the
\* account's address and by none otherwise.
C10_SimulationErrorAlways ==
    (tx.est_failed /\ tx.last_error # "none") =>
        /\ tx.last_error = "simulation"
        /\ tx.refreshes <= 1

\* ------------------------------------------------- C4, C5 (SpecCalls)
Updaters == {w \in Callers : wk[w].ret = "call_upd"}
Getters == {w \in Callers : wk[w].ret = "call_get"}
CallsDone == \A w \in Callers : wk[w].pc \in {"returned", "raised"}
InsideLock == {"upd_sleep48", "upd_loop62", "upd_net106"}
\* the update_invites calls that took the refill path, and those of them
\* that ended with the pool still empty
Refills == {w \in Callers : wk[w].refilled}
EmptyRefills == {w \in Callers : wk[w].left_empty}

\* C4 as stated: when every one of the K concurrent callers calls
\* update_invites on an empty pool, exactly one refill is executed in total
\* and the other callers return without refilling, also when the refill
\* yields no codes (stated here for the runs in which no call raises).
C4_ExactlyOneRefill ==
    (Updaters = Callers /\ pool0 = <<>> /\ \A w \in Callers : wk[w].pc = "returned") =>
        Cardinality(Refills) = 1

\* C4, amended: the body of update_invites is executed by one task at a time,
\* the holder of the pool's lock, so no caller sees a pool mid-refill; a
\* caller refills exactly when it finds the pool empty on entering. Of K
\* concurrent update_invites calls on an empty pool, the first refills, and
\* each later one refills again exactly when every refill before it left the
\* pool empty: one refill in total when the first yields a code, K when none
\* does.
C4_OneRefillAtATime ==
    /\ Cardinality({w \in Tasks : wk[w].pc \in InsideLock}) <= 1
    /\ \A w \in Tasks : wk[w].pc \in InsideLock => lockHolder = w
    /\ \A w \in Tasks :
           wk[w].pc \in {"upd_loop62", "upd_net106"} => wk[w].refilled
    /\ (Updaters = Callers /\ pool0 = <<>>) =>
           /\ Cardinality(Refills) <= Cardinality(EmptyRefills) + 1
           /\ CallsDone =>
                  Cardinality(Refills) =
                      Min(NumCallers, Cardinality(EmptyRefills) + 1)

\* all callers are done, one refilled the pool and the others did not
C4_Witness ==
    /\ Updaters = Callers
    /\ pool0 = <<>>
    /\ CallsDone
    /\ Cardinality(Refills) = 1
    /\ EmptyRefills = {}
    /\ pool # <<>>

\* C5: concurrent get_invite calls on a pool of n pairwise distinct codes
\* (no refill in between) return the pool's codes from its head, in the
\* order the calls take the lock: the codes returned and the codes left make
\* up the initial pool, each returned code went to exactly one caller, None
\* is returned only on an empty pool, and K calls return min(K, n) codes.
C5_ConcurrentGetInvite ==
    (IsDistinct(pool0) /\ Refills = {}) =>
        /\ popLog \o pool = pool0
        /\ \A w \in Getters : wk[w].pc = "returned" =>
               IF wk[w].invite = None THEN pool = <<>>
               ELSE \E i \in 1..Len(popLog) : popLog[i] = wk[w].invite
        /\ \A w, v \in Getters :
               (w # v /\ wk[w].invite # None) => wk[w].invite # wk[v].invite
        /\ Cardinality({w \in Getters : wk[w].invite # None}) = Len(popLog)
        /\ CallsDone => Len(popLog) = Min(Cardinality(Getters), Len(pool0))

\* the pool [1, 2] and two callers: the one that took the lock first has 1,
\* the other 2, nobody None, and the pool is empty
C5_Witness ==
    /\ pool0 = <<1, 2>>
    /\ Getters = {0, 1}
    /\ CallsDone
    /\ wk[1].invite = 1
    /\ wk[0].invite = 2
    /\ pool = <<>>
    /\ Refills = {}

\* ------------------------------------------------------ C1 (FairSpec)
Workers == {w \in Tasks : w < THREADS_NUM}
BatchesDone == \A w \in Workers : wk[w].pc = "batch_done"
Processed(a) == outcome[a] \in {"returned", "raised"}

AggregateUsedInvites ==
    SumSeq([i \in 1..THREADS_NUM |-> wk[i - 1].used_invites])

\* C2 as stated: when the run is over, the aggregate invite-used count equals
\* the number of use_invite_code calls that returned without error, also for
\* accounts whose processing raised after the invite was redeemed.
C2_CountEqualsRedeemed ==
    BatchesDone => AggregateUsedInvites = redeemed

\* ---------------------------------------------------------- C6 (Spec)
\* popLog holds the codes get_invite returned, in order, since the pool last
\* grew; a None result means an empty pool, which must grow before the next
\* code comes out.

C7_NoInFlightCodeInPool ==
    IsDistinct(pool0) =>
        \A w \in Workers :
            wk[w].pc = "use164" => wk[w].invite \notin Range(pool)

InAttempt == {"build206", "estimate210", "refresh214", "send219"}

\* C12: a call through async_retry runs the wrapped build_and_send_tx at
\* least once and at most MaxAttempts times; every attempt but the current
\* one has failed, so nothing runs again after an attempt that succeeded;
\* and when the call raises, every one of the MaxAttempts attempts has failed
\* and the error is the one the last attempt raised.
C12_RetryPolicy ==
    /\ tx.attempt <= MaxAttempts
    /\ tx.pc \in InAttempt => tx.attempt >= 1 /\ Len(tx.errors) = tx.attempt - 1
    /\ tx.pc = "retry_sleep" =>
           Len(tx.errors) = tx.attempt /\ tx.attempt < MaxAttempts
    /\ tx.hashes >= 1 =>
           /\ Len(tx.errors) = tx.attempt - 1
           /\ tx.pc \notin InAttempt \cup {"retry_sleep"}
    /\ (tx.pc = "raised" /\ tx.attempt >= 1 /\ tx.hashes = 0) =>
           /\ Len(tx.errors) = MaxAttempts
           /\ tx.attempt = MaxAttempts
           /\ tx.error = tx.errors[MaxAttempts]

\* three failed attempts of different kinds; the last one's error propagates
C12_Witness ==
    /\ tx.pc = "raised"
    /\ tx.errors = <<"rpc", "simulation", "refresh">>
    /\ tx.error = "refresh"

\* --------------------------------------------------------- C13 (SpecTx)
\* C13 as stated: with no private key bound, build_and_send_tx's body is
\* executed exactly once, no chain call is made, and the error propagates to
\* the caller without a retry.
C13_NoKeyNotRetried ==
    ~tx.key =>
        /\ tx.attempt <= 1
        /\ tx.done = <<>>
        /\ tx.pc \notin InAttempt \cup {"retry_sleep"}
        /\ tx.attempt = 1 => tx.pc = "raised" /\ tx.error = "no_key"

\* ------------------------------------------------------ C14 (FairSpec)
NoInvitesRaised(w) ==
    wk[w].pc = "except222" /\ wk[w].error = "no_invites"

\* C14: invite exhaustion.  A worker never goes on to use_invite_code without
\* a code; the 'No invite codes left' error is raised exactly in a step that
\* finds the pool empty on the second get_invite, for an account that has
\* redeemed nothing; the error ends that account only: the worker's next
\* step records the account as raised and turns to the next account of the
\* batch, and the run goes on until every account of every batch has been
\* processed.
C14_InviteExhaustion ==
    /\ [](\A w \in Workers :
              /\ wk[w].pc = "use164" => wk[w].invite # None
              /\ NoInvitesRaised(w) =>
                     /\ wk[w].invite = None
                     /\ ~wk[w].invite_used
                     /\ outcome[wk[w].account] = "started")
    /\ [][\A w \in Workers :
              (~NoInvitesRaised(w) /\ NoInvitesRaised(w)') =>
                  /\ pool' = <<>>
                  /\ wk[w].pc \in {"sign_in152", "use164", "wait155", "wait159",
                                   "upd_sleep48", "upd_loop62", "upd_net106"}]_vars
    /\ [][\A w \in Workers :
              (NoInvitesRaised(w) /\ wk'[w] # wk[w]) =>
                  /\ outcome'[wk[w].account] = "raised"
                  /\ wk'[w].pc = "start"
                  /\ wk'[w].pos = wk[w].pos + 1]_vars
    /\ (\E w \in Workers : NoInvitesRaised(w))
           ~> (BatchesDone /\ \A b \in BatchAccounts : Processed(b))

\* the first account of a batch of two has raised 'No invite codes left'
\* after a refill that left the pool empty, while the other batch is at work
C14_Witness ==
    /\ NoInvitesRaised(0)
    /\ wk[0].pos = 1
    /\ Len(Batches[0]) >= 2
    /\ cfg.autoUpdate
    /\ pool = <<>>
    /\ \E a \in Range(Batches[1]) : outcome[a] = "started"

\* ----------------------------------------------------------- C15 (SpecDec)
RECURSIVE Pow16(_)
Pow16(n) == IF n = 0 THEN 1 ELSE 16 * Pow16(n - 1)

RECURSIVE SumOver(_, _, _)
SumOver(data, k, j) ==
    IF j = 0 THEN 0
    ELSE data[(k - 1) * WordWidth + j] * Pow16(WordWidth - j)
             + SumOver(data, k, j - 1)

\* the number held by the k-th word of a payload
WordAt(data, k) == SumOver(data, k, WordWidth)

\* a log that carries the result topic and a payload
IsResultLog(log) ==
    /\ log.has_topics
    /\ log.topics # <<>>
    /\ log.topics[1] = LOG_RESULT_TOPIC
    /\ log.has_data

\* a log whose decoding fails: no topic at all, or fewer than six words
Undecodable(log) ==
    /\ log.has_topics
    /\ \/ log.topics = <<>>
       \/ /\ log.topics[1] = LOG_RESULT_TOPIC
          /\ log.has_data
          /\ Len(log.data) <= (NumWords - 1) * WordWidth

\* s lists the non-zero words among the third to sixth of data, in payload
\* order, each with the name of its position
IsSummaryOf(s, data) ==
    LET nz == {k \in 3..NumWords : WordAt(data, k) # 0}
    IN  /\ Len(s) = Cardinality(nz)
        /\ \A k \in nz :
              s[Cardinality({j \in nz : j <= k})]
                  = [val |-> WordAt(data, k), name |-> LOG_DATA_NAMES[k - 2]]

\* C15: when the logs of a receipt have been decoded, one summary has been
\* reported for every result log that precedes the first undecodable log, in
\* order; the summary of a payload of six whole words lists exactly the
\* non-zero values among its third to sixth word, in payload order, each with
\* the name assigned to its position; and no decoding error is raised
C15_ReceiptDecoding ==
    dec.pc = "return260" =>
        LET logs == dec.logs
            Bad == {i \in 1..Len(logs) : Undecodable(logs[i])}
            R == {i \in 1..Len(logs) :
                     IsResultLog(logs[i]) /\ \A b \in Bad : i < b}
        IN  /\ ~dec.out.raised
            /\ dec.out.failed <=> Bad # {}
            /\ Len(dec.out.received) = Cardinality(R)
            /\ \A i \in R :
                  Len(logs[i].data) >= NumWords * WordWidth =>
                      IsSummaryOf(dec.out.received[Cardinality({j \in R : j <= i})],
                                  logs[i].data)

\* a log with another topic, then a result log of six whole words with two
\* zero and two non-zero words: one summary naming the first and third
C15_Witness ==
    /\ dec.pc = "return260"
    /\ Len(dec.logs) = 2
    /\ ~IsResultLog(dec.logs[1])
    /\ IsResultLog(dec.logs[2])
    /\ Len(dec.logs[2].data) = NumWords * WordWidth
    /\ WordAt(dec.logs[2].data, 4) = 0
    /\ WordAt(dec.logs[2].data, 6) = 0
    /\ Len(dec.out.received) = 1
    /\ Len(dec.out.received[1]) = 2
    /\ dec.out.received[1][1].name = LOG_DATA_NAMES[1]
    /\ dec.out.received[1][2].name = LOG_DATA_NAMES[3]
    /\ dec.out.received[1][1].val # 0

\* a short payload swallowed: nothing reported for it and nothing raised
C15_WitnessSwallowed ==
    /\ dec.pc = "return260"
    /\ dec.out.failed
    /\ ~dec.out.raised

\* ------------------------------------------------------------ C19 (SpecTx)
\* the steps of one attempt, in the order of account.py:204-219
TxSteps == <<"nonce", "build", "simulate", "sign", "send">>

\* C19: in every attempt of build_and_send_tx the steps done so far are an
\* initial part of nonce, build, simulate, sign, send, beginning anew (with
\* a new nonce read) in each attempt; send_raw_transaction is reached only
\* after the four earlier steps of the same attempt and never in an attempt
\* whose estimate_gas failed; a hash is returned only by an attempt in which
\* all steps succeeded
C19_BuildOrder ==
    /\ \E n \in 0..Len(TxSteps) : tx.done = SubSeq(TxSteps, 1, n)
    /\ tx.pc = "build206" => tx.done = <<>>
    /\ tx.pc = "estimate210" => tx.done = SubSeq(TxSteps, 1, 2)
    /\ tx.pc = "send219" => tx.done = SubSeq(TxSteps, 1, 4) /\ ~tx.est_failed
    /\ tx.est_failed =>
          /\ tx.pc # "send219"
          /\ Len(tx.done) <= 2
          /\ tx.hashes = 0
    /\ tx.hashes > 0 => tx.done = TxSteps /\ ~tx.est_failed

\* an attempt failed in simulation, a later attempt went through all steps
\* and returned a hash
C19_Witness ==
    /\ tx.attempt >= 2
    /\ tx.hashes = 1
    /\ tx.done = TxSteps
    /\ \E i \in 1..Len(tx.errors) : tx.errors[i] = "simulation"

\* --------------------------------------------------------------- C20 (Spec)
\* worker w's use_invite_code call ends and process_account neither goes on
\* past the loop nor raises: the failure was 'already used' and was caught
CaughtAlreadyUsed(w) ==
    /\ wk[w].pc = "use164"
    /\ wk'[w] # wk[w]
    /\ wk'[w].pc \notin {"refresh176", "except222"}

\* worker w's use_invite_code call ends and an exception leaves
\* process_account
RaisedAtUse(w) == wk[w].pc = "use164" /\ wk'[w].pc = "except222"

\* C20: an 'already used' failure of use_invite_code never is the exception
\* that leaves process_account; the worker that caught it redeems nothing, is
\* back in get_invite / update_invites (waiting for the lock, or refilling an
\* empty pool) and, when it holds a code again, that code was popped from the
\* head of the pool; an exception that leaves
\* process_account from the use_invite_code call is either the other failure
\* of that call, and then pool and redeemed codes are as they were (the
\* popped code is not put back), or 'No invite codes left' after a caught
\* 'already used' with the pool empty
C20_AlreadyUsedIsCaught ==
    /\ [](\A w \in Workers :
            wk[w].pc = "except222" => wk[w].error \notin {"already_used", "none"})
    /\ [][\A w \in Workers :
            /\ CaughtAlreadyUsed(w) =>
                  /\ wk'[w].error = "already_used"
                  /\ wk[w].invite \in used
                  /\ used' = used /\ redeemed' = redeemed /\ outcome' = outcome
                  /\ ~wk'[w].invite_used
                  /\ wk'[w].account = wk[w].account
                  /\ wk'[w].pc = "use164" =>
                        /\ pool # <<>>
                        /\ wk'[w].invite = Head(pool)
                        /\ pool' = Tail(pool)
                  /\ wk'[w].pc # "use164" =>
                        /\ pool' = pool
                        /\ acquire_now(lockHolder, lockQueue) => pool = <<>>
            /\ RaisedAtUse(w) =>
                  /\ wk'[w].error \in {"use_invite", "no_invites"}
                  /\ wk'[w].error = "use_invite" =>
                        /\ pool' = pool
                        /\ used' = used /\ redeemed' = redeemed
                        /\ wk'[w].invite = wk[w].invite
                        /\ ~wk'[w].invite_used
                  /\ wk'[w].error = "no_invites" =>
                        pool = <<>> /\ pool' = <<>> /\ wk[w].invite \in used
         ]_vars

\* one worker has caught 'already used' and holds the next code of the pool
\* while another worker's use_invite_code has failed otherwise
C20_Witness ==
    \E w1, w2 \in Workers :
        /\ wk[w1].pc = "use164"
        /\ wk[w1].error = "already_used"
        /\ wk[w1].invite # None
        /\ wk[w2].pc = "except222"
        /\ wk[w2].error = "use_invite"

\* --------------------------------------------------------------- C16 (Spec)
\* the callable for account a has been called and has neither returned nor
\* raised yet
InProgress(w, a) ==
    /\ outcome[a] = "started"
    /\ wk[w].account = a
    /\ wk[w].pc \notin {"start", "except222", "batch_done"}

\* C16: in every batch the accounts before the worker's position have been
\* processed, those after it have not been started, and only the account at
\* the position can be in progress, so no two accounts of a batch are in
\* progress together; and the callable for position i+1 is called only in a
\* state where the callable for position i has returned or raised
C16_InBatchOrder ==
    /\ [](\A w \in Workers : \A i \in 1..Len(Batches[w]) :
            LET a == Batches[w][i]
            IN  /\ i < wk[w].pos => Processed(a)
                /\ i > wk[w].pos => outcome[a] = "none"
                /\ outcome[a] = "started" =>
                      /\ i = wk[w].pos
                      /\ wk[w].account = a
                      /\ wk[w].pc \notin {"start", "batch_done"}
                /\ \A j \in 1..Len(Batches[w]) :
                      (i # j /\ InProgress(w, a)) => ~InProgress(w, Batches[w][j]))
    /\ [][\A w \in Workers : \A i \in 1..Len(Batches[w]) :
            (outcome[Batches[w][i]] = "none" /\ outcome'[Batches[w][i]] # "none") =>
                /\ outcome'[Batches[w][i]] = "started"
                /\ wk[w].pc = "start"
                /\ \A j \in 1..(i - 1) : Processed(Batches[w][j])
                /\ \A j \in (i + 1)..Len(Batches[w]) : outcome[Batches[w][j]] = "none"
         ]_vars

\* the second account of batch 0 is in progress, its first one processed,
\* while the account of batch 1, started earlier, is still in progress
C16_Witness ==
    /\ Len(Batches[0]) >= 2
    /\ Processed(Batches[0][1])
    /\ InProgress(0, Batches[0][2])
    /\ InProgress(1, Batches[1][1])
    /\ wk[1].pc \notin {"sign_in152"}

\* --------------------------------------------------------------- C17 (Spec)
\* the positions where a task is suspended on a collaborator call or a pause
\* inside update_invites
SuspendedInUpdate == {"upd_sleep48", "upd_net106"}

\* the positions where a task waits for the pool's lock
WaitingForLock == {"wait155", "wait159", "upd_wait45"}

\* C17 as stated: in no reachable state does a worker hold the pool lock
\* while it is suspended on a network / collaborator call or a timed pause
C17_LockOnlyForQueueMutation ==
    \A w \in Workers : wk[w].pc \in SuspendedInUpdate => lockHolder # w

\* C17, amended: get_invite holds the pool lock for the pop only and never
\* across a suspension; the tasks that are suspended while holding the lock
\* are exactly those inside update_invites, which keeps it from its emptiness
\* test to its return, over the throttling pause and over every profile fetch
\* of the refill; a task starts to wait for the lock only when the lock is
\* held or has earlier waiters, and the waiters are exactly the queued tasks
C17_LockHeldByUpdateOnly ==
    /\ [](\A w \in Workers :
            /\ lockHolder = w => wk[w].pc \in InsideLock
            /\ wk[w].pc \in InsideLock => lockHolder = w
            /\ wk[w].pc \in WaitingForLock <=>
                  \E i \in 1..Len(lockQueue) : lockQueue[i] = w)
    /\ [][\A w \in Workers :
            (wk[w].pc \notin WaitingForLock /\ wk'[w].pc \in WaitingForLock) =>
                ~acquire_now(lockHolder, lockQueue)
         ]_vars

\* a get_invite caller waits for the lock while the holder is suspended in a
\* profile fetch of its refill
C17_Witness ==
    \E w1, w2 \in Workers :
        /\ wk[w1].pc = "wait155"
        /\ lockHolder = w2
        /\ wk[w2].pc = "upd_net106"

\* --------------------------------------------------------------- C18 (Spec)
\* worker w is inside refresh of address a, between its get_account_info and
\* its set_account_info (main.py:98-114), on behalf of update_invites
Refreshing(w, a) == wk[w].pc = "upd_net106" /\ wk[w].raddr = a

\* C18 as stated: no two workers are at the same time between their read and
\* their later write of the same address's record: while one worker is
\* between get_account_info and set_account_info of process_account for an
\* address, no other worker's refill is refreshing that address
C18_NoOverlappingReadWrite ==
    \A w1, w2 \in Workers : \A a \in Accounts :
        (w1 # w2 /\ InProgress(w1, a)) => ~Refreshing(w2, a)

\* ----------------------------------------------------------- C21 (SpecCalls)
\* caller w takes the pool's lock inside update_invites in this step
TakesLockInUpdate(w) ==
    /\ lockHolder # w
    /\ lockHolder' = w
    /\ wk[w].pc \in {"call_upd", "upd_wait45"}

\* C21: an update_invites call that finds the pool non-empty when it has the
\* lock takes the no-op path; from there to its return it fetches no profile
\* and starts no refill, nobody changes the pool or the store, and it leaves
\* without an error with the lock released and the pool as it found it
C21_NoOpOnNonEmptyPool ==
    /\ [](\A w \in Callers :
            wk[w].pc = "upd_sleep48" =>
                /\ lockHolder = w
                /\ pool # <<>>
                /\ ~wk[w].refilled
                /\ wk[w].todo = <<>>
                /\ wk[w].raddr = 0)
    /\ [][\A w \in Callers :
            /\ (TakesLockInUpdate(w) /\ pool # <<>>) =>
                  /\ wk'[w].pc = "upd_sleep48"
                  /\ pool' = pool /\ store' = store
            /\ (TakesLockInUpdate(w) /\ pool = <<>>) => wk'[w].pc # "upd_sleep48"
            /\ wk[w].pc = "upd_sleep48" =>
                  /\ pool' = pool /\ store' = store /\ used' = used
                  /\ wk'[w].pc \in {"upd_sleep48", "returned"}
                  /\ wk'[w].pc = "returned" =>
                        /\ lockHolder' # w
                        /\ ~wk'[w].refilled
         ]_vars

\* a caller has returned from update_invites on a pool of two codes, which
\* is unchanged, while a get_invite caller that came meanwhile has waited
C21_Witness ==
    \E w1, w2 \in Callers :
        /\ wk[w1].ret = "call_upd"
        /\ wk[w1].pc = "returned"
        /\ ~wk[w1].refilled
        /\ Len(pool0) = 2
        /\ pool = pool0
        /\ wk[w2].pc = "wait155"

\* ----------------------------------------------------------- C22 (FairSpec)
\* C22: the Storage lock is taken and released within one step of a task, so
\* it is free whenever a task is suspended and no task asks for the pool's
\* lock, or for any lock, while holding it; the holder of the pool's lock is
\* inside update_invites and neither waits for the pool's lock again nor
\* keeps it after leaving update_invites, by return or by exception; and
\* when every collaborator call returns, the run comes to the point where
\* every batch is done, nobody holds or waits for a lock
C22_DeadlockFreedom ==
    /\ [](storeLock = NoOne)
    /\ [](\A w \in Workers :
            /\ lockHolder = w =>
                  /\ wk[w].pc \notin WaitingForLock
                  /\ \A i \in 1..Len(lockQueue) : lockQueue[i] # w
            /\ wk[w].pc \in {"start", "sign_in152", "use164", "refresh176",
                             "tail181", "check201", "except222", "batch_done"}
                  => lockHolder # w)
    /\ [](\A i, j \in 1..Len(lockQueue) : i # j => lockQueue[i] # lockQueue[j])
    /\ <>[](BatchesDone /\ lockHolder = NoOne /\ lockQueue = <<>>
                        /\ storeLock = NoOne)

\* the holder of the pool's lock has read a record through the Storage's
\* lock and is in refresh's network calls; another worker waits to enter
\* update_invites
C22_Witness ==
    \E w1, w2 \in Workers :
        /\ lockHolder = w1
        /\ wk[w1].pc = "upd_net106"
        /\ wk[w1].rinfo # NoInfo
        /\ wk[w2].pc = "upd_wait45"
        /\ storeLock = NoOne

\* --------------------------------------------------------------- C23 (Spec)
\* worker w takes this step
StepOf(w) == wk'[w] # wk[w]

\* C23 as stated: a worker inside process_account changes the Store record
\* of its address only in its last step, the set_account_info of main.py:205
C23_OwnRecordWrittenOnlyAtEnd ==
    [][\A w \in Workers :
          (StepOf(w) /\ wk[w].account \in Accounts
              /\ store'[wk[w].account] # store[wk[w].account])
                  => wk[w].pc = "check201"]_vars

\* C23, amended: process_account itself writes the Store once, as its last
\* step, the record of its own address with the account info it holds, and
\* then returns; until then what it does to its account info (a deep copy)
\* leaves the Store as it is, and a step that raises writes nothing.  The
\* only other Store writes made during a process_account call are those of
\* refresh inside a refill of update_invites the call has triggered: they
\* write the refreshed records of addresses of the refill's prefix, the
\* call's own address among them when it belongs to the prefix
C23_StoreWrites ==
    [][/\ store' # store => \E w \in Workers : StepOf(w)
       /\ \A w \in Workers :
            /\ (StepOf(w) /\ store' # store) =>
                  \/ /\ wk[w].pc = "check201"
                     /\ store' = [store EXCEPT ![wk[w].account] = wk[w].info]
                     /\ outcome'[wk[w].account] = "returned"
                     /\ wk'[w].pc = "start"
                  \/ /\ wk[w].pc = "upd_net106"
                     /\ lockHolder = w
                     /\ wk[w].raddr \in Range(from_addresses)
                     /\ store[wk[w].raddr] # NoInfo
                     /\ \A a \in Accounts \ {wk[w].raddr} : store'[a] = store[a]
                     /\ wk'[w].pc = "upd_loop62"
            /\ (StepOf(w) /\ wk'[w].pc = "except222") => store' = store
            /\ (StepOf(w) /\ wk[w].pc \in {"refresh176", "tail181"}) =>
                  store' = store
      ]_vars

\* a call has raised after refresh_profile changed its copy of the account
\* info: the Store still holds the record as it was read
C23_Witness ==
    \E w \in Workers :
        /\ wk[w].pc = "except222"
        /\ wk[w].error = "other"
        /\ store[wk[w].account] # NoInfo
        /\ wk[w].info.invite_codes # store[wk[w].account].invite_codes

\* -------------------------------------------------------------- C24 (SpecPa)
\* C24: an exception of claim_daily_insight or claim_rank_insights is caught
\* by the except clause of the claim block: the call goes on after the block,
\* never raising the claim's error; when the daily claim raised, the rank
\* claim was not run and nothing counts as claimed; from there only
\* refresh_profile (when a claim was counted) or check_insights can still
\* make the call raise, and the record is written if and only if the call
\* returns
C24_ClaimErrorsAreCaught ==
    /\ [](/\ pa.pc = "raised" =>
                pa.error \in {"quests", "refresh", "link", "check_insights"}
          /\ pa.daily = "raised" =>
                pa.rank = "not_run" /\ pa.claim_error /\ pa.claimed = 0
          /\ pa.claim_error <=> (pa.daily = "raised" \/ pa.rank = "raised")
          /\ pa.claim_error =>
                /\ pa.pc \in {"after196", "check201", "returned", "raised"}
                /\ pa.pc = "raised" => pa.error \in {"refresh", "check_insights"}
                /\ (pa.pc = "raised" /\ pa.error = "refresh") => pa.claimed > 0
          /\ pa.stored <=> pa.pc = "returned")
    /\ [][(~pa.claim_error /\ pa'.claim_error) =>
              /\ tx.pc = "raised"
              /\ pa.pc \in {"daily189", "rank192"}
              /\ pa'.pc = "after196"
              /\ pa'.claimed = pa.claimed]_vars
    /\ [][(pa.pc = "after196" /\ pa'.pc # "after196") =>
              \/ pa'.pc = "check201"
              \/ pa.claimed > 0 /\ pa'.pc = "raised"]_vars

\* the daily claim raised when build_and_send_tx had used up its attempts; the
\* rank claim was skipped and the call has written its record and returned
C24_Witness ==
    /\ pa.daily = "raised"
    /\ pa.claim_rank
    /\ pa.attempts = MaxAttempts
    /\ pa.rank = "not_run"
    /\ pa.stored
    /\ pa.pc = "returned"

\* -------------------------------------------------------------- C25 (SpecPa)
\* C25: every claim of process_account runs on an account context whose
\* private key is bound, so no attempt of build_and_send_tx ends with 'No
\* private key specified'; and a call in which link_wallet_if_needed raised
\* has bound no key, run no claim and begun no attempt
C25_KeyBoundBeforeClaims ==
    /\ tx.pc # "off" => pa.key /\ tx.key /\ pa.pc \in {"daily189", "rank192"}
    /\ pa.pc \in {"claims186", "daily189", "rank192"} => pa.key
    /\ tx.last_error # "no_key" /\ tx.error # "no_key"
    /\ \A i \in 1..Len(tx.errors) : tx.errors[i] # "no_key"
    /\ pa.error = "link" =>
          /\ ~pa.key
          /\ ~pa.linked0
          /\ pa.attempts = 0
          /\ pa.daily = "not_run" /\ pa.rank = "not_run"
          /\ tx = TxOff

\* the wallet was linked in this call and an attempt of build_and_send_tx is
\* past the key test, building its transaction
C25_Witness ==
    /\ ~pa.linked0
    /\ pa.key
    /\ pa.pc = "daily189"
    /\ tx.pc = "build206"
    /\ tx.attempt >= 1

\* --------------------------------------------------------------- C26 (Spec)
\* worker w's update_invites raises in this step
UpdateRaises(w) ==
    /\ wk[w].pc \in InsideLock
    /\ wk'[w].pc = "except222"
    /\ wk'[w].error = "update_failed"

\* C26: update_invites raises only out of a profile fetch of its refill; the
\* step that raises gives 'Update invites failed' to process_account, which
\* lets it pass to process_batch without drawing a code; the pool's lock is
\* released and the pool is left as it was, with the codes the refill has
\* appended so far; and the account is then recorded as failed whatever the
\* pool holds
C26_FailedRefillKeepsCodes ==
    /\ [](\A w \in Workers :
            (wk[w].pc = "except222" /\ wk[w].error = "update_failed") =>
                /\ lockHolder # w
                /\ \A i \in 1..Len(lockQueue) : lockQueue[i] # w
                /\ wk[w].invite = None
                /\ ~wk[w].invite_used
                /\ outcome[wk[w].account] = "started")
    /\ [][\A w \in Workers :
            /\ UpdateRaises(w) =>
                  /\ wk[w].pc = "upd_net106"
                  /\ lockHolder = w
                  /\ lockHolder' = NoOne
                  /\ wk'[w].invite = None
                  /\ pool' = pool
                  /\ store' = store
            /\ (StepOf(w) /\ wk[w].error # "update_failed"
                          /\ wk'[w].error = "update_failed") => UpdateRaises(w)
            /\ (StepOf(w) /\ wk[w].pc = "except222"
                          /\ wk[w].error = "update_failed") =>
                  /\ outcome'[wk[w].account] = "raised"
                  /\ pool' = pool
                  /\ wk'[w].used_invites = wk[w].used_invites
         ]_vars

\* the refill of an empty pool appended a code and then failed: its caller
\* is about to be recorded as failed while the pool holds the code and the
\* lock is free
C26_Witness ==
    \E w \in Workers :
        /\ wk[w].pc = "except222"
        /\ wk[w].error = "update_failed"
        /\ pool0 = <<>>
        /\ pool # <<>>
        /\ lockHolder = NoOne

\* --------------------------------------------------------- C27 (SpecRefresh)
\* C27: during the refresh pass the pool is as it was at the start of the
\* pass, nobody takes or waits for its lock, no code is redeemed, no task
\* holds a code and every batch's invite-used count is 0; and the step in
\* which refresh finds that an account has no record, or that it needs an
\* invite, leaves the Store as it is; the Store changes only by the write of
\* a refreshed record
C27_RefreshPassLeavesPool ==
    /\ [](/\ pool = pool0
          /\ lockHolder = NoOne /\ lockQueue = <<>>
          /\ redeemed = 0
          /\ \A w \in Workers :
                /\ wk[w].used_invites = 0
                /\ wk[w].invite = None
                /\ ~wk[w].invite_used
                /\ wk[w].pc \in {"start", "r_sign108", "r_refresh112",
                                 "except222", "batch_done"})
    /\ [][/\ used' = used
          /\ \A a \in Accounts :
                /\ (outcome'[a] # outcome[a]
                       /\ outcome'[a] \in {"needs_invite", "no_record", "raised"})
                      => store' = store
                /\ store'[a] # store[a] =>
                      /\ outcome[a] = "started"
                      /\ outcome'[a] = "returned"
                      /\ store'[a] = [store[a] EXCEPT
                                         !.invite_codes = UnusedCodes(a, used)]
         ]_vars

\* the pass is over: one account was skipped because it needs an invite, its
\* record untouched, another account's record was rewritten, and the pool
\* still holds its two codes
C27_Witness ==
    /\ \A w \in Workers : wk[w].pc = "batch_done"
    /\ Len(pool) = 2
    /\ \E a \in Accounts :
          /\ outcome[a] = "needs_invite"
          /\ store[a].invite_codes # UnusedCodes(a, used)
    /\ \E a \in Accounts :
          /\ outcome[a] = "returned"
          /\ store[a].invite_codes = <<>>
          /\ a \in used

====
